---- MODULE Spec2Model ----
(***************************************************************************)
(* The chat server of src/server/verify_session.js (lines 184-489): the    *)
(* socket.io handlers session:start, message:send and disconnect, the      *)
(* in-memory maps connectedClients and rateLimits, and the tables User,    *)
(* Session and Message of the store (lines 100-152).                       *)
(*                                                                         *)
(* Node runs one handler segment at a time; a handler gives up the thread  *)
(* at each await.  Every action below is one such segment, or the moment   *)
(* an awaited store call takes effect.  A handler that is between two      *)
(* segments is a record with a pc and its local variables.                 *)
(***************************************************************************)
EXTENDS Integers, Sequences, FiniteSets, TLC

(***************************************************************************)
(* Bounds of the model.                                                    *)
(***************************************************************************)
\* The sockets that connect during a run.
NumSockets == 2
\* The clock advances TickMs at a time, MaxTicks times in Spec and
\* MaxRateTicks times in SpecRate.
MaxTicks == 1
MaxRateTicks == 3
TickMs == 2500
\* The handlers that wait at an await at the same time.
MaxInFlight == 2
\* The Session rows a run creates.
MaxSessions == 2
\* The sends the rate limiter admits in a run of SpecRate.
MaxRateSends == 7
\* The sends the rate limiter admits in a run of SpecSend.
MaxSends == 3
\* The sends a run of SpecReplay adds to the rows it starts with.
MaxReplaySends == 2
\* The sends the rate limiter admits in a run of SpecBurst.
MaxBurstSends == 10
\* Texts the chat views submit in one run of SpecChat.
MaxChatSends == 2

(***************************************************************************)
(* Constants of the program.                                               *)
(***************************************************************************)
RATE_LIMIT_WINDOW_MS == 5000
RATE_LIMIT_MAX_MESSAGES == 5
NicknameMin == 1
NicknameMax == 20
TextMin == 1
HistoryTake == 50

\* SQL NULL / JS null for a timestamp or an integer column.
Null == -1
\* No session row: ids are AUTOINCREMENT and start at 1.
NoSession == 0
\* io.emit addresses every connection; socket.emit one socket id.
ToAll == 0

Sockets == 1 .. NumSockets

\* The user ids of the runs: two version-4 uuids.
UserIds == {"6513270e-269e-4d37-b2a7-4de452e6b438",
            "d23f0824-128b-4f33-8c5c-7fd0a6a3a450"}
NotAUuid == "guest"

\* z.string().uuid()
IsUuid(x) == x \in UserIds

\* First hex digit of md5(userId), as a number.
Md5FirstHexDigit(userId) ==
    CASE userId = "6513270e-269e-4d37-b2a7-4de452e6b438" -> 14
      [] userId = "d23f0824-128b-4f33-8c5c-7fd0a6a3a450" -> 5
      [] OTHER -> 0

getAssignment(userId) ==
    IF Md5FirstHexDigit(userId) % 2 = 0 THEN "CONTROL" ELSE "TREATMENT"

(***************************************************************************)
(* Strings are sequences of one-character strings, so that length and trim *)
(* are computed.                                                           *)
(***************************************************************************)
IsSpace(ch) == ch = " "

RECURSIVE TrimStart(_)
TrimStart(str) ==
    IF str = <<>> THEN <<>>
    ELSE IF IsSpace(Head(str)) THEN TrimStart(Tail(str)) ELSE str

RECURSIVE TrimEnd(_)
TrimEnd(str) ==
    IF str = <<>> THEN <<>>
    ELSE IF IsSpace(str[Len(str)]) THEN TrimEnd(SubSeq(str, 1, Len(str) - 1))
    ELSE str

Trim(str) == TrimEnd(TrimStart(str))

LongName == [i \in 1 .. (NicknameMax + 1) |-> "x"]

\* The nicknames and texts that clients send.
RawNicknames == {<<"A">>, <<" ">>, <<>>, LongName}
RawTexts == {<<"h", "i">>, <<" ">>, <<>>}

SessionStartPayloads == [userId : UserIds \cup {NotAUuid}, nickname : RawNicknames]
MessageSendPayloads == [userId : UserIds \cup {NotAUuid}, text : RawTexts]

\* The payloads of the runs of Spec: one nickname that passes, two that do not.
StartPayloads == {p \in SessionStartPayloads : p.nickname # <<" ">>}
\* The payloads of the runs of SpecRate: one user, one text.
RateUser == "6513270e-269e-4d37-b2a7-4de452e6b438"
RateSendPayloads == {[userId |-> RateUser, text |-> <<"h", "i">>]}
RateReplies == {[kind |-> "throws", mood |-> "", intensity |-> 0]}

\* SessionStartSchema.safeParse: min and max test the string as sent, then
\* trim transforms it.
SessionStartValid(p) ==
    /\ IsUuid(p.userId)
    /\ Len(p.nickname) >= NicknameMin
    /\ Len(p.nickname) <= NicknameMax

SessionStartData(p) == [userId |-> p.userId, nickname |-> Trim(p.nickname)]

\* MessageSendSchema.safeParse
MessageSendValid(p) ==
    /\ IsUuid(p.userId)
    /\ Len(p.text) >= TextMin

MessageSendData(p) == [userId |-> p.userId, text |-> Trim(p.text)]

(***************************************************************************)
(* The state.                                                              *)
(***************************************************************************)
VARIABLES
    sockStatus,        \* socket id -> "new" | "open" | "closed"
    User,              \* table User: userId -> row
    Session,           \* table Session: row i has id i
    Message,           \* table Message, in insertion order
    connectedClients,  \* the Map socket.id -> client data, in insertion order
    rateLimits,        \* the Map userId -> {count, startTime}
    now,               \* the clock, in ms
    ss,                \* socket id -> the session:start handler in flight
    ms,                \* place -> a message:send handler in flight
    dc,                \* socket id -> the disconnect handler in flight
    emitted,           \* the events emitted by the last segment, in order
    admitted,          \* history: the sends the rate limiter let through
    InferenceJob,      \* table InferenceJob, in insertion order
    app                \* socket id -> the App component at the other end

vars == <<sockStatus, User, Session, Message, connectedClients, rateLimits,
          now, ss, ms, dc, emitted, admitted, InferenceJob, app>>

NoUser == [exists |-> FALSE, nickname |-> <<>>, assignment |-> "", lastSeenAt |-> Null]
NoLimit == [exists |-> FALSE, count |-> 0, startTime |-> 0]

SSIdle == [pc |-> "idle", userId |-> "", nickname |-> <<>>, at |-> 0,
           sessionId |-> NoSession, history |-> <<>>]
MSIdle == [pc |-> "idle", userId |-> "", nickname |-> <<>>, text |-> <<>>,
           mood |-> "NEUTRAL", intensity |-> 0, saved |-> 0, at |-> 0]
DCIdle == [pc |-> "idle", userId |-> "", sessionId |-> NoSession, at |-> 0]

\* The client at the other end of a socket is not the App component (the
\* scripts verify.js and verify_session.js are such clients).
NoApp == [mounted |-> FALSE, userId |-> "", override |-> "", assignment |-> "",
          joined |-> FALSE, messages |-> <<>>, received |-> <<>>]

Init ==
    /\ sockStatus = [s \in Sockets |-> "new"]
    /\ User = [u \in UserIds |-> NoUser]
    /\ Session = <<>>
    /\ Message = <<>>
    /\ connectedClients = <<>>
    /\ rateLimits = [u \in UserIds |-> NoLimit]
    /\ now = 0
    /\ ss = [s \in Sockets |-> SSIdle]
    /\ ms = [s \in Sockets |-> MSIdle]
    /\ dc = [s \in Sockets |-> DCIdle]
    /\ emitted = <<>>
    /\ admitted = <<>>
    /\ InferenceJob = <<>>
    /\ app = [s \in Sockets |-> NoApp]

(***************************************************************************)
(* The Map connectedClients.                                               *)
(***************************************************************************)
Indices(seq) == 1 .. Len(seq)

HasClient(clients, id) == \E i \in Indices(clients) : clients[i].id = id

ClientOf(clients, id) ==
    clients[CHOOSE i \in Indices(clients) : clients[i].id = id]

\* Map.set: an existing key keeps its place, a new key goes last.
ClientsSet(clients, entry) ==
    IF HasClient(clients, entry.id)
    THEN [i \in Indices(clients) |->
            IF clients[i].id = entry.id THEN entry ELSE clients[i]]
    ELSE Append(clients, entry)

\* Map.delete
ClientsDelete(clients, id) ==
    SelectSeq(clients, LAMBDA c : c.id # id)

\* RemainingConnections with a loop that never counts.
RemainingConnectionsNone(clients, userId) == 0

\* The loop of the disconnect handler that counts the user's other entries.
RemainingConnections(clients, userId) ==
    Cardinality({i \in Indices(clients) : clients[i].userId = userId})

OnlineEntry(c) ==
    [userId |-> c.userId, nickname |-> c.nickname, assignment |-> c.assignment]

\* UniqueUsersSet as a push onto an array.
UniqueUsersAppend(map, entry) == Append(map, entry)

\* uniqueUsersMap.set(client.userId, ...)
UniqueUsersSet(map, entry) ==
    IF \E i \in Indices(map) : map[i].userId = entry.userId
    THEN [i \in Indices(map) |->
            IF map[i].userId = entry.userId THEN entry ELSE map[i]]
    ELSE Append(map, entry)

RECURSIVE UniqueUsersMap(_, _)
UniqueUsersMap(clients, map) ==
    IF clients = <<>> THEN map
    ELSE UniqueUsersMap(Tail(clients), UniqueUsersSet(map, OnlineEntry(Head(clients))))

OnlineUsersOf(clients) == UniqueUsersMap(clients, <<>>)

getOnlineUsers == OnlineUsersOf(connectedClients)

(***************************************************************************)
(* Events.                                                                 *)
(***************************************************************************)
InvalidPayload(s) ==
    [type |-> "error:invalid_payload", to |-> s,
     message |-> "Invalid payload for session:start"]
InvalidMessage(s) ==
    [type |-> "error:invalid_payload", to |-> s, message |-> "Invalid payload"]
UserIdMismatched(s) ==
    [type |-> "error:invalid_payload", to |-> s, message |-> "User ID mismatch"]
RateLimited(s) ==
    [type |-> "error:rate_limited", to |-> s,
     message |-> "Too many messages. Please wait."]
PresenceUpdate(users) == [type |-> "presence:update", to |-> ToAll, onlineUsers |-> users]
SessionAck(s, userId, nickname, assignment, users, history) ==
    [type |-> "session:ack", to |-> s, userId |-> userId, nickname |-> nickname,
     assignment |-> assignment, onlineUsers |-> users, lastMessages |-> history]
MessageNew(m) == [type |-> "message:new", to |-> ToAll, message |-> m]

(***************************************************************************)
(* The clock and the transport.                                            *)
(***************************************************************************)
Tick(maxTicks) ==
    /\ now < maxTicks * TickMs
    /\ now' = now + TickMs
    /\ emitted' = <<>>
    /\ UNCHANGED <<sockStatus, User, Session, Message, connectedClients,
                   rateLimits, ss, ms, dc, admitted,
                   InferenceJob, app>>

\* io.on('connection'): the handlers of the socket are registered.
Connect(s) ==
    /\ sockStatus[s] = "new"
    /\ sockStatus' = [sockStatus EXCEPT ![s] = "open"]
    /\ emitted' = <<>>
    /\ UNCHANGED <<User, Session, Message, connectedClients, rateLimits, now,
                   ss, ms, dc, admitted,
                   InferenceJob, app>>

(***************************************************************************)
(* The store.                                                              *)
(***************************************************************************)
\* prisma.session.findFirst({where: {userId, endedAt: null}}): the query has
\* no orderBy, so any open row of the user may be the one returned.
OpenSessionsOf(userId) ==
    {i \in Indices(Session) :
        Session[i].userId = userId /\ Session[i].endedAt = Null}

\* UpsertUser whose update block writes the assignment too, as CONTROL.
UpsertUserReassigns(userId, nickname, assignment, at) ==
    IF User[userId].exists
    THEN [User EXCEPT ![userId].nickname = nickname,
                      ![userId].assignment = "CONTROL",
                      ![userId].lastSeenAt = at]
    ELSE [User EXCEPT ![userId] = [exists |-> TRUE, nickname |-> nickname,
                                   assignment |-> assignment, lastSeenAt |-> at]]

\* prisma.user.upsert
UpsertUser(userId, nickname, assignment, at) ==
    IF User[userId].exists
    THEN [User EXCEPT ![userId].nickname = nickname, ![userId].lastSeenAt = at]
    ELSE [User EXCEPT ![userId] = [exists |-> TRUE, nickname |-> nickname,
                                   assignment |-> assignment, lastSeenAt |-> at]]

\* prisma.session.create: durationSec and endedAt get no value.
NewSession(userId, at) ==
    [userId |-> userId, startedAt |-> at, endedAt |-> Null, durationSec |-> Null]

\* The orders in which rows with the ids of a set may come back under
\* orderBy createdAt desc: rows of equal createdAt in any order.
RECURSIVE DescOrders(_)
DescOrders(ids) ==
    IF ids = {} THEN {<<>>}
    ELSE LET newest == {i \in ids : \A j \in ids : Message[j].createdAt <= Message[i].createdAt}
         IN  UNION {{<<i>> \o rest : rest \in DescOrders(ids \ {i})} : i \in newest}

Take(seq, n) == SubSeq(seq, 1, IF Len(seq) < n THEN Len(seq) ELSE n)

\* Reverse that leaves the rows newest first.
ReverseNot(seq) == seq

\* Array.prototype.reverse
Reverse(seq) == [i \in Indices(seq) |-> seq[Len(seq) + 1 - i]]

MessageDTO(id) ==
    [id |-> id, userId |-> Message[id].userId,
     nicknameSnapshot |-> Message[id].nicknameSnapshot, text |-> Message[id].text,
     createdAt |-> Message[id].createdAt, mood |-> Message[id].mood,
     intensity |-> Message[id].intensity]

(***************************************************************************)
(* socket.on('session:start')                                              *)
(***************************************************************************)
StartsInFlight == Cardinality({t \in Sockets : ss[t].pc # "idle"})

\* The handlers that are waiting at an await.
InFlight ==
    Cardinality({t \in Sockets : ss[t].pc # "idle"})
    + Cardinality({t \in Sockets : ms[t].pc # "idle"})
    + Cardinality({t \in Sockets : dc[t].pc # "idle"})

\* The handler up to its first await: validation, getAssignment, and the
\* call of prisma.user.upsert.
SSBegin(s, p) ==
    /\ sockStatus[s] = "open"
    /\ ss[s].pc = "idle"
    /\ IF ~SessionStartValid(p)
       THEN /\ emitted' = <<InvalidPayload(s)>>
            /\ UNCHANGED ss
       ELSE /\ Len(Session) + StartsInFlight < MaxSessions
            /\ InFlight < MaxInFlight
            /\ ss' = [ss EXCEPT ![s] = [SSIdle EXCEPT
                        !.pc = "upsert",
                        !.userId = SessionStartData(p).userId,
                        !.nickname = SessionStartData(p).nickname,
                        !.at = now]]
            /\ emitted' = <<>>
    /\ UNCHANGED <<sockStatus, User, Session, Message, connectedClients,
                   rateLimits, now, dc, ms, admitted,
                   InferenceJob, app>>

\* 1. Upsert User takes effect.
SSUpsert(s) ==
    /\ ss[s].pc = "upsert"
    /\ User' = UpsertUser(ss[s].userId, ss[s].nickname,
                          getAssignment(ss[s].userId), ss[s].at)
    /\ ss' = [ss EXCEPT ![s].pc = "findFirst"]
    /\ emitted' = <<>>
    /\ UNCHANGED <<sockStatus, Session, Message, connectedClients, rateLimits,
                   now, ms, dc, admitted,
                   InferenceJob, app>>

\* SSFindFirst with a lookup that finds no row.
SSFindFirstCreates(s) ==
    /\ ss[s].pc = "findFirst"
    /\ ss' = [ss EXCEPT ![s].pc = "create", ![s].at = now]
    /\ emitted' = <<>>
    /\ UNCHANGED <<sockStatus, User, Session, Message, connectedClients,
                   rateLimits, now, ms, dc, admitted,
                   InferenceJob, app>>

\* 2. The lookup of an open session is answered; without one the handler
\* calls prisma.session.create.
SSFindFirst(s) ==
    /\ ss[s].pc = "findFirst"
    /\ IF OpenSessionsOf(ss[s].userId) = {}
       THEN ss' = [ss EXCEPT ![s].pc = "create", ![s].at = now]
       ELSE \E id \in OpenSessionsOf(ss[s].userId) :
                ss' = [ss EXCEPT ![s].pc = "track", ![s].sessionId = id]
    /\ emitted' = <<>>
    /\ UNCHANGED <<sockStatus, User, Session, Message, connectedClients,
                   rateLimits, now, ms, dc, admitted,
                   InferenceJob, app>>

\* The new Session row is written.
SSCreate(s) ==
    /\ ss[s].pc = "create"
    /\ Session' = Append(Session, NewSession(ss[s].userId, ss[s].at))
    /\ ss' = [ss EXCEPT ![s].pc = "track", ![s].sessionId = Len(Session) + 1]
    /\ emitted' = <<>>
    /\ UNCHANGED <<sockStatus, User, Message, connectedClients, rateLimits,
                   now, ms, dc, admitted,
                   InferenceJob, app>>

\* 3. Track locally, then the handler calls prisma.message.findMany.
SSTrack(s) ==
    /\ ss[s].pc = "track"
    /\ connectedClients' = ClientsSet(connectedClients,
            [id |-> s, userId |-> ss[s].userId, nickname |-> ss[s].nickname,
             assignment |-> getAssignment(ss[s].userId),
             sessionId |-> ss[s].sessionId])
    /\ ss' = [ss EXCEPT ![s].pc = "history"]
    /\ emitted' = <<>>
    /\ UNCHANGED <<sockStatus, User, Session, Message, rateLimits, now, ms, dc,
                   admitted,
                   InferenceJob, app>>

\* 4. Load History: the result of the first findMany is not used; the
\* second one is taken in descending order and reversed.  Message rows are
\* never updated, so the handler keeps the ids of the rows it read.
SSHistory(s) ==
    /\ ss[s].pc = "history"
    /\ \E order \in DescOrders(Indices(Message)) :
          ss' = [ss EXCEPT ![s].pc = "ack",
                           ![s].history = Reverse(Take(order, HistoryTake))]
    /\ emitted' = <<>>
    /\ UNCHANGED <<sockStatus, User, Session, Message, connectedClients,
                   rateLimits, now, ms, dc, admitted,
                   InferenceJob, app>>

\* 5.-7. Build the online users, emit the ack, broadcast presence.
SSAck(s) ==
    /\ ss[s].pc = "ack"
    /\ emitted' = <<SessionAck(s, ss[s].userId, ss[s].nickname,
                               getAssignment(ss[s].userId), getOnlineUsers,
                               [i \in Indices(ss[s].history) |-> MessageDTO(ss[s].history[i])]),
                    PresenceUpdate(getOnlineUsers)>>
    /\ ss' = [ss EXCEPT ![s] = SSIdle]
    /\ UNCHANGED <<sockStatus, User, Session, Message, connectedClients,
                   rateLimits, now, ms, dc, admitted,
                   InferenceJob, app>>

\* An awaited store call rejects: the catch block logs and emits nothing.
SSFail(s) ==
    /\ ss[s].pc \in {"upsert", "findFirst", "create", "history"}
    /\ ss' = [ss EXCEPT ![s] = SSIdle]
    /\ emitted' = <<>>
    /\ UNCHANGED <<sockStatus, User, Session, Message, connectedClients,
                   rateLimits, now, ms, dc, admitted,
                   InferenceJob, app>>

(***************************************************************************)
(* socket.on('message:send')                                               *)
(***************************************************************************)
\* The answers of the classifier at http://localhost:8000/infer; intensity
\* is in tenths.  "ok" is a 200 whose body has a mood; "notOk" another
\* status; "throws" a transport error; "noMood" a 200 whose body has no
\* mood, so that data.mood.toUpperCase() throws.  The body of the last
\* reply has a mood and "intensity": null.
ClassifierReplies ==
    {[kind |-> "ok", mood |-> "joy", intensity |-> 8],
     [kind |-> "notOk", mood |-> "", intensity |-> 0],
     [kind |-> "throws", mood |-> "", intensity |-> 0],
     [kind |-> "noMood", mood |-> "", intensity |-> 8],
     [kind |-> "ok", mood |-> "joy", intensity |-> Null]}

\* String.prototype.toUpperCase on the moods of the runs.
ToUpperCase(str) == IF str = "joy" THEN "JOY" ELSE str

\* LimitData that never finds the stored window.
LimitDataFresh(userId) == [exists |-> TRUE, count |-> 0, startTime |-> now]

\* LimitData with >= for >.
LimitDataInclusive(userId) ==
    IF \/ ~rateLimits[userId].exists
       \/ now - rateLimits[userId].startTime >= RATE_LIMIT_WINDOW_MS
    THEN [exists |-> TRUE, count |-> 0, startTime |-> now]
    ELSE rateLimits[userId]

\* The window the limiter works on: a fresh one when the user has none or
\* the stored one is older than the window length.
LimitData(userId) ==
    IF \/ ~rateLimits[userId].exists
       \/ now - rateLimits[userId].startTime > RATE_LIMIT_WINDOW_MS
    THEN [exists |-> TRUE, count |-> 0, startTime |-> now]
    ELSE rateLimits[userId]

\* MSNoClientData with an answer to the socket.
MSNoClientDataAnswers(s) ==
    /\ emitted' = <<InvalidMessage(s)>>
    /\ UNCHANGED <<ms, rateLimits, admitted>>

\* if (!clientData) return;
MSNoClientData(s) ==
    /\ emitted' = <<>>
    /\ UNCHANGED <<ms, rateLimits, admitted>>

\* UserIdMismatch that trusts the payload.
UserIdMismatchNever(data, userId) == FALSE

\* result.data.userId !== userId
UserIdMismatch(data, userId) == data.userId # userId

\* MSRateLimited that stores the window with the send counted.
MSRateLimitedCounts(s, userId, limitData) ==
    /\ emitted' = <<RateLimited(s)>>
    /\ rateLimits' = [rateLimits EXCEPT ![userId] =
            [limitData EXCEPT !.count = limitData.count + 1]]
    /\ UNCHANGED <<ms, admitted>>

\* if (limitData.count >= RATE_LIMIT_MAX_MESSAGES): the answer to the
\* socket, then return.
MSRateLimited(s, userId, limitData) ==
    /\ emitted' = <<RateLimited(s)>>
    /\ UNCHANGED <<ms, rateLimits, admitted>>

\* The handler up to its first await: the lookup of the client data, the
\* validation, the rate limit, and the call of fetch.  A socket may have
\* several sends in flight; h is the place in ms where this call of the
\* handler keeps its locals.
MSBeginAt(h, s, p, maxSends) ==
    /\ sockStatus[s] = "open"
    /\ ms[h].pc = "idle"
    /\ IF ~HasClient(connectedClients, s)
       THEN MSNoClientData(s)
       ELSE LET clientData == ClientOf(connectedClients, s)
                userId == clientData.userId
                limitData == LimitData(userId)
            IN  IF ~MessageSendValid(p)
                THEN /\ emitted' = <<InvalidMessage(s)>>
                     /\ UNCHANGED <<ms, rateLimits, admitted>>
                ELSE IF UserIdMismatch(MessageSendData(p), userId)
                THEN /\ emitted' = <<UserIdMismatched(s)>>
                     /\ UNCHANGED <<ms, rateLimits, admitted>>
                ELSE IF limitData.count >= RATE_LIMIT_MAX_MESSAGES
                THEN MSRateLimited(s, userId, limitData)
                ELSE /\ Len(admitted) < maxSends
                     /\ InFlight < MaxInFlight
                     /\ rateLimits' = [rateLimits EXCEPT ![userId] =
                            [limitData EXCEPT !.count = limitData.count + 1]]
                     /\ admitted' = Append(admitted,
                            [userId |-> userId, at |-> now,
                             windowStart |-> limitData.startTime])
                     /\ ms' = [ms EXCEPT ![h] = [MSIdle EXCEPT
                            !.pc = "fetch", !.userId = userId,
                            !.nickname = clientData.nickname,
                            !.text = MessageSendData(p).text]]
                     /\ emitted' = <<>>
    /\ UNCHANGED <<sockStatus, User, Session, Message, connectedClients, now,
                   ss, dc,
                   InferenceJob, app>>

\* The call is kept at the place of its socket: one send in flight per
\* socket.
MSBegin(s, p, maxSends) == MSBeginAt(s, s, p, maxSends)

\* fetch is answered, or throws; then the handler calls
\* prisma.message.create.
MSFetch(s, reply) ==
    /\ ms[s].pc = "fetch"
    /\ ms' = [ms EXCEPT ![s].pc = "create",
                        ![s].mood = IF reply.kind = "ok"
                                    THEN ToUpperCase(reply.mood) ELSE "NEUTRAL",
                        ![s].intensity = IF reply.kind = "ok"
                                         THEN reply.intensity ELSE 0]
    /\ emitted' = <<>>
    /\ UNCHANGED <<sockStatus, User, Session, Message, connectedClients,
                   rateLimits, now, ss, dc, admitted,
                   InferenceJob, app>>

\* The Message row is written; then the handler calls prisma.user.update.
\* The column intensity is REAL NOT NULL.
MSCreate(s) ==
    /\ ms[s].pc = "create"
    /\ ms[s].intensity # Null
    /\ Message' = Append(Message,
            [userId |-> ms[s].userId, nicknameSnapshot |-> ms[s].nickname,
             text |-> ms[s].text, createdAt |-> now, mood |-> ms[s].mood,
             intensity |-> ms[s].intensity])
    /\ ms' = [ms EXCEPT ![s].pc = "updateUser", ![s].saved = Len(Message) + 1,
                        ![s].at = now]
    /\ emitted' = <<>>
    /\ UNCHANGED <<sockStatus, User, Session, connectedClients, rateLimits,
                   now, ss, dc, admitted,
                   InferenceJob, app>>

\* lastSeenAt is written; then the handler broadcasts the message.
MSUpdateUser(s) ==
    /\ ms[s].pc = "updateUser"
    /\ User' = [User EXCEPT ![ms[s].userId].lastSeenAt = ms[s].at]
    /\ emitted' = <<MessageNew(MessageDTO(ms[s].saved))>>
    /\ ms' = [ms EXCEPT ![s] = MSIdle]
    /\ UNCHANGED <<sockStatus, Session, Message, connectedClients, rateLimits,
                   now, ss, dc, admitted,
                   InferenceJob, app>>

\* prisma.message.create rejects a row whose intensity is null: the outer
\* catch block logs.
MSCreateRejects(s) ==
    /\ ms[s].pc = "create"
    /\ ms[s].intensity = Null
    /\ ms' = [ms EXCEPT ![s] = MSIdle]
    /\ emitted' = <<>>
    /\ UNCHANGED <<sockStatus, User, Session, Message, connectedClients,
                   rateLimits, now, ss, dc, admitted,
                   InferenceJob, app>>

\* An awaited store call rejects: the outer catch block logs.
MSFail(s) ==
    /\ ms[s].pc \in {"create", "updateUser"}
    /\ ms' = [ms EXCEPT ![s] = MSIdle]
    /\ emitted' = <<>>
    /\ UNCHANGED <<sockStatus, User, Session, Message, connectedClients,
                   rateLimits, now, ss, dc, admitted,
                   InferenceJob, app>>

(***************************************************************************)
(* socket.on('disconnect')                                                 *)
(***************************************************************************)
\* The transport of the socket closes and the handler runs up to its await:
\* the entry is deleted, the other entries of the user are counted, and
\* either the session is closed or presence is broadcast at once.
Disconnect(s) ==
    /\ sockStatus[s] = "open"
    /\ sockStatus' = [sockStatus EXCEPT ![s] = "closed"]
    /\ IF ~HasClient(connectedClients, s)
       THEN /\ emitted' = <<>>
            /\ UNCHANGED <<connectedClients, dc>>
       ELSE LET clientData == ClientOf(connectedClients, s)
                rest == ClientsDelete(connectedClients, s)
            IN  /\ connectedClients' = rest
                /\ IF /\ RemainingConnections(rest, clientData.userId) = 0
                      /\ clientData.sessionId # NoSession
                   THEN /\ InFlight < MaxInFlight
                        /\ dc' = [dc EXCEPT ![s] =
                                [pc |-> "closeSession", userId |-> clientData.userId,
                                 sessionId |-> clientData.sessionId, at |-> now]]
                        /\ emitted' = <<>>
                   ELSE /\ emitted' = <<PresenceUpdate(OnlineUsersOf(rest))>>
                        /\ UNCHANGED dc
    /\ UNCHANGED <<User, Session, Message, rateLimits, now, ss, ms, admitted,
                   InferenceJob, app>>

\* prisma.session.update({data: {endedAt: now}}) takes effect.
DCCloseSession(s) ==
    /\ dc[s].pc = "closeSession"
    /\ Session' = [Session EXCEPT ![dc[s].sessionId].endedAt = dc[s].at]
    /\ dc' = [dc EXCEPT ![s].pc = "updateUser"]
    /\ emitted' = <<>>
    /\ UNCHANGED <<sockStatus, User, Message, connectedClients, rateLimits,
                   now, ss, ms, admitted,
                   InferenceJob, app>>

\* prisma.user.update({data: {lastSeenAt: now}}) takes effect.
DCUpdateUser(s) ==
    /\ dc[s].pc = "updateUser"
    /\ User' = [User EXCEPT ![dc[s].userId].lastSeenAt = dc[s].at]
    /\ dc' = [dc EXCEPT ![s].pc = "presence"]
    /\ emitted' = <<>>
    /\ UNCHANGED <<sockStatus, Session, Message, connectedClients, rateLimits,
                   now, ss, ms, admitted,
                   InferenceJob, app>>

\* One of the two store calls rejects: the inner catch block logs.
DCFail(s) ==
    /\ dc[s].pc \in {"closeSession", "updateUser"}
    /\ dc' = [dc EXCEPT ![s].pc = "presence"]
    /\ emitted' = <<>>
    /\ UNCHANGED <<sockStatus, User, Session, Message, connectedClients,
                   rateLimits, now, ss, ms, admitted,
                   InferenceJob, app>>

\* DCPresence with the broadcast inside the try block, skipped.
DCPresenceSilent(s) ==
    /\ dc[s].pc = "presence"
    /\ emitted' = <<>>
    /\ dc' = [dc EXCEPT ![s] = DCIdle]
    /\ UNCHANGED <<sockStatus, User, Session, Message, connectedClients,
                   rateLimits, now, ss, ms, admitted,
                   InferenceJob, app>>

\* Broadcast Presence Update, after the try block.
DCPresence(s) ==
    /\ dc[s].pc = "presence"
    /\ emitted' = <<PresenceUpdate(getOnlineUsers)>>
    /\ dc' = [dc EXCEPT ![s] = DCIdle]
    /\ UNCHANGED <<sockStatus, User, Session, Message, connectedClients,
                   rateLimits, now, ss, ms, admitted,
                   InferenceJob, app>>

(***************************************************************************)
(* The server under any clients.                                           *)
(***************************************************************************)
\* Joins and disconnects, the clock, and store calls that may reject.
Next ==
    \/ Tick(MaxTicks)
    \/ \E s \in Sockets : Connect(s)
    \/ \E s \in Sockets, p \in StartPayloads : SSBegin(s, p)
    \/ \E s \in Sockets : SSUpsert(s)
    \/ \E s \in Sockets : SSFindFirst(s)
    \/ \E s \in Sockets : SSCreate(s)
    \/ \E s \in Sockets : SSTrack(s)
    \/ \E s \in Sockets : SSHistory(s)
    \/ \E s \in Sockets : SSAck(s)
    \/ \E s \in Sockets : SSFail(s)
    \/ \E s \in Sockets : Disconnect(s)
    \/ \E s \in Sockets : DCCloseSession(s)
    \/ \E s \in Sockets : DCUpdateUser(s)
    \/ \E s \in Sockets : DCFail(s)
    \/ \E s \in Sockets : DCPresence(s)

Spec == Init /\ [][Next]_vars

\* The same without the clock, with every nickname.
NextNames ==
    \/ \E s \in Sockets : Connect(s)
    \/ \E s \in Sockets, p \in SessionStartPayloads : SSBegin(s, p)
    \/ \E s \in Sockets : SSUpsert(s)
    \/ \E s \in Sockets : SSFindFirst(s)
    \/ \E s \in Sockets : SSCreate(s)
    \/ \E s \in Sockets : SSTrack(s)
    \/ \E s \in Sockets : SSHistory(s)
    \/ \E s \in Sockets : SSAck(s)
    \/ \E s \in Sockets : SSFail(s)
    \/ \E s \in Sockets : Disconnect(s)
    \/ \E s \in Sockets : DCCloseSession(s)
    \/ \E s \in Sockets : DCUpdateUser(s)
    \/ \E s \in Sockets : DCFail(s)
    \/ \E s \in Sockets : DCPresence(s)

SpecNames == Init /\ [][NextNames]_vars

\* Every socket has joined as the same user at time 0, one after another:
\* the state the joins of Spec leave behind.
InitRate ==
    /\ sockStatus = [s \in Sockets |-> "open"]
    /\ User = [u \in UserIds |->
            IF u = RateUser
            THEN [exists |-> TRUE, nickname |-> <<"A">>,
                  assignment |-> getAssignment(u), lastSeenAt |-> 0]
            ELSE NoUser]
    /\ Session = <<NewSession(RateUser, 0)>>
    /\ Message = <<>>
    /\ connectedClients = [s \in Sockets |->
            [id |-> s, userId |-> RateUser, nickname |-> <<"A">>,
             assignment |-> getAssignment(RateUser), sessionId |-> 1]]
    /\ rateLimits = [u \in UserIds |-> NoLimit]
    /\ now = 0
    /\ ss = [s \in Sockets |-> SSIdle]
    /\ ms = [s \in Sockets |-> MSIdle]
    /\ dc = [s \in Sockets |-> DCIdle]
    /\ emitted = <<>>
    /\ admitted = <<>>
    /\ InferenceJob = <<>>
    /\ app = [s \in Sockets |-> NoApp]

\* The connections of one user send, over a longer time; the classifier is
\* down and the store answers.
NextRate ==
    \/ Tick(MaxRateTicks)
    \/ \E s \in Sockets, p \in RateSendPayloads : MSBegin(s, p, MaxRateSends)
    \/ \E s \in Sockets, r \in RateReplies : MSFetch(s, r)
    \/ \E s \in Sockets : MSCreate(s)
    \/ \E s \in Sockets : MSUpdateUser(s)

SpecRate == InitRate /\ [][NextRate]_vars

\* The first socket has joined as RateUser at time 0; the other sockets are
\* connected and have sent no session:start.
InitSend ==
    /\ sockStatus = [s \in Sockets |-> "open"]
    /\ User = [u \in UserIds |->
            IF u = RateUser
            THEN [exists |-> TRUE, nickname |-> <<"A">>,
                  assignment |-> getAssignment(u), lastSeenAt |-> 0]
            ELSE NoUser]
    /\ Session = <<NewSession(RateUser, 0)>>
    /\ Message = <<>>
    /\ connectedClients =
            <<[id |-> 1, userId |-> RateUser, nickname |-> <<"A">>,
               assignment |-> getAssignment(RateUser), sessionId |-> 1]>>
    /\ rateLimits = [u \in UserIds |-> NoLimit]
    /\ now = 0
    /\ ss = [s \in Sockets |-> SSIdle]
    /\ ms = [s \in Sockets |-> MSIdle]
    /\ dc = [s \in Sockets |-> DCIdle]
    /\ emitted = <<>>
    /\ admitted = <<>>
    /\ InferenceJob = <<>>
    /\ app = [s \in Sockets |-> NoApp]

\* Sends of every payload, under every answer of the classifier; store
\* calls may reject.
NextSend ==
    \/ \E s \in Sockets, p \in MessageSendPayloads : MSBegin(s, p, MaxSends)
    \/ \E s \in Sockets, r \in ClassifierReplies : MSFetch(s, r)
    \/ \E s \in Sockets : MSCreate(s)
    \/ \E s \in Sockets : MSCreateRejects(s)
    \/ \E s \in Sockets : MSUpdateUser(s)
    \/ \E s \in Sockets : MSFail(s)

SpecSend == InitSend /\ [][NextSend]_vars

\* The payload of the joins of SpecHistory.
HistoryStartPayloads == {[userId |-> RateUser, nickname |-> <<"A">>]}

\* One user sends until the limiter rejects, and joins on further sockets:
\* the history of the acknowledgement is read while sends are in flight and
\* after them.  The user has an open session throughout, so no join creates
\* one.  The classifier is down and the store answers.
NextHistory ==
    \/ \E s \in Sockets, p \in RateSendPayloads : MSBegin(s, p, MaxRateSends)
    \/ \E s \in Sockets, r \in RateReplies : MSFetch(s, r)
    \/ \E s \in Sockets : MSCreate(s)
    \/ \E s \in Sockets : MSUpdateUser(s)
    \/ \E s \in Sockets, p \in HistoryStartPayloads : SSBegin(s, p)
    \/ \E s \in Sockets : SSUpsert(s)
    \/ \E s \in Sockets : SSFindFirst(s)
    \/ \E s \in Sockets : SSTrack(s)
    \/ \E s \in Sockets : SSHistory(s)
    \/ \E s \in Sockets : SSAck(s)

SpecHistory == InitSend /\ [][NextHistory]_vars

\* The same where the store answers every call it can answer, and in the
\* end.  Nothing in the handler bounds the time fetch takes, so an answer of
\* the classifier is not required.
NextDelivery ==
    \/ \E s \in Sockets, p \in MessageSendPayloads : MSBegin(s, p, MaxSends)
    \/ \E s \in Sockets, r \in ClassifierReplies : MSFetch(s, r)
    \/ \E s \in Sockets : MSCreate(s)
    \/ \E s \in Sockets : MSCreateRejects(s)
    \/ \E s \in Sockets : MSUpdateUser(s)

FairnessDelivery ==
    \A s \in Sockets :
        /\ WF_vars(MSCreate(s))
        /\ WF_vars(MSCreateRejects(s))
        /\ WF_vars(MSUpdateUser(s))

SpecDelivery == InitSend /\ [][NextDelivery]_vars /\ FairnessDelivery

\* Spec, where every store call is answered or rejects in the end and every
\* continuation is run: the handlers do not wait for ever.
Fairness ==
    \A s \in Sockets :
        /\ WF_vars(SSAck(s))
        /\ WF_vars(DCCloseSession(s) \/ DCFail(s))
        /\ WF_vars(DCUpdateUser(s) \/ DCFail(s))
        /\ WF_vars(DCPresence(s))

FairSpec == Spec /\ Fairness

(***************************************************************************)
(* What the claims speak of.                                               *)
(***************************************************************************)
Quiet ==
    \A s \in Sockets : ss[s].pc = "idle" /\ ms[s].pc = "idle" /\ dc[s].pc = "idle"

OpenRows(userId) ==
    {i \in Indices(Session) :
        Session[i].userId = userId /\ Session[i].endedAt = Null}

RegisteredUsers == {connectedClients[i].userId : i \in Indices(connectedClients)}

EntriesOf(userId) ==
    {i \in Indices(connectedClients) : connectedClients[i].userId = userId}

Emits(type) == \E i \in Indices(emitted) : emitted[i].type = type

(***************************************************************************)
(* C1: each user has at most one Session row whose endedAt is null, in     *)
(* every reachable state.  The code breaks it: two session:start handlers  *)
(* of one user both find no open row and both create one.                  *)
(***************************************************************************)
C1_OneOpenSessionPerUser ==
    \A u \in UserIds : Cardinality(OpenRows(u)) <= 1

(***************************************************************************)
(* C2: once the handlers have completed, every registered connection is    *)
(* bound to a session that is still open.  The code breaks it: the         *)
(* disconnect of the last connection closes the row that a session:start   *)
(* in flight has already looked up and then registers.                     *)
(***************************************************************************)
C2_BoundToOpenSession ==
    Quiet =>
        \A i \in Indices(connectedClients) :
            sockStatus[connectedClients[i].id] = "open" =>
                Session[connectedClients[i].sessionId].endedAt = Null

(***************************************************************************)
(* C3: when no connection is left and every handler has completed, no      *)
(* user has an open session.  The code breaks it: a socket that closes     *)
(* while its session:start waits for the store leaves an open row behind.  *)
(***************************************************************************)
C3_NoSessionWithoutConnection ==
    (Quiet /\ \A s \in Sockets : sockStatus[s] # "open") =>
        \A u \in UserIds : OpenRows(u) = {}

(***************************************************************************)
(* C4: a session:start whose lookup is answered while the user has an open *)
(* session creates no Session row and binds its connection to an open      *)
(* session of the user: with one open session, to the session of the       *)
(* user's other connections.                                               *)
(***************************************************************************)
C4_Step ==
    \A s \in Sockets :
        /\ (/\ ss[s].pc = "findFirst"
            /\ ss'[s].pc \notin {"findFirst", "idle"}
            /\ OpenRows(ss[s].userId) # {})
           => /\ Session' = Session
              /\ ss'[s].pc = "track"
              /\ ss'[s].sessionId \in OpenRows(ss[s].userId)
        /\ (ss[s].pc = "track" /\ ss'[s].pc = "history")
           => /\ Session' = Session
              /\ HasClient(connectedClients', s)
              /\ ClientOf(connectedClients', s).sessionId = ss[s].sessionId
              /\ ClientOf(connectedClients', s).userId = ss[s].userId

C4_ReuseOpenSession == [][C4_Step]_vars

\* The second connection of a user has just been acknowledged on the one
\* session row there is.
C4_Witness ==
    /\ Quiet
    /\ Len(Session) = 1
    /\ Emits("session:ack")
    /\ \E i, j \in Indices(connectedClients) :
          /\ i < j
          /\ connectedClients[j].id = emitted[1].to
          /\ connectedClients[i].userId = connectedClients[j].userId
          /\ connectedClients[i].sessionId = connectedClients[j].sessionId

(***************************************************************************)
(* C5: the disconnect of a registered connection whose user has another    *)
(* registered connection changes no Session row and starts no close; the   *)
(* disconnect of the user's last registered connection starts the close    *)
(* of its session, and the close sets endedAt.                             *)
(***************************************************************************)
C5_Step ==
    \A s \in Sockets :
        LET closing == /\ sockStatus[s] = "open"
                       /\ sockStatus'[s] = "closed"
                       /\ HasClient(connectedClients, s)
            c == ClientOf(connectedClients, s)
            others == {i \in EntriesOf(c.userId) : connectedClients[i].id # s}
        IN  /\ (closing /\ others # {})
               => Session' = Session /\ dc'[s].pc = "idle"
            /\ (closing /\ others = {})
               => dc'[s].pc = "closeSession" /\ dc'[s].sessionId = c.sessionId
            /\ (dc[s].pc = "closeSession" /\ dc'[s].pc = "updateUser")
               => /\ Session'[dc[s].sessionId].endedAt # Null
                  /\ Session'[dc[s].sessionId].endedAt = dc[s].at

C5_CloseOnLastDisconnect == [][C5_Step]_vars

\* Of the two connections of the one user there is, one has closed and its
\* handler has completed with a broadcast that still lists the user; the
\* other is registered on the one session row, which is open.
C5_Witness ==
    \E s, t \in Sockets :
        /\ sockStatus[s] = "closed" /\ dc[s].pc = "idle"
        /\ sockStatus[t] = "open"
        /\ Quiet
        /\ Cardinality({u \in UserIds : User[u].exists}) = 1
        /\ Len(Session) = 1
        /\ Session[1].endedAt = Null
        /\ Len(connectedClients) = 1
        /\ connectedClients[1].id = t
        /\ connectedClients[1].sessionId = 1
        /\ emitted = <<PresenceUpdate(<<OnlineEntry(connectedClients[1])>>)>>

(***************************************************************************)
(* C6: a closed session records durationSec = endedAt - startedAt.  The    *)
(* code breaks it: the close writes endedAt alone.                         *)
(***************************************************************************)
C6_DurationRecorded ==
    \A i \in Indices(Session) :
        Session[i].endedAt # Null =>
            Session[i].durationSec =
                (Session[i].endedAt - Session[i].startedAt) \div 1000

(***************************************************************************)
(* C7: no step changes the user a connection is registered to.  The code   *)
(* breaks it: a second session:start on the socket with another userId     *)
(* overwrites the entry.                                                   *)
(***************************************************************************)
C7_Step ==
    \A s \in Sockets :
        (HasClient(connectedClients, s) /\ HasClient(connectedClients', s))
        => ClientOf(connectedClients', s).userId = ClientOf(connectedClients, s).userId

C7_UserOfConnectionFixed == [][C7_Step]_vars

(***************************************************************************)
(* C8: getOnlineUsers lists every user with a registered connection once,  *)
(* and no other user.                                                      *)
(***************************************************************************)
C8_OnlineUsersOncePerUser ==
    /\ \A i, j \in Indices(getOnlineUsers) :
          getOnlineUsers[i].userId = getOnlineUsers[j].userId => i = j
    /\ {getOnlineUsers[i].userId : i \in Indices(getOnlineUsers)} = RegisteredUsers

\* One user has two registered connections, under two nicknames.
C8_Witness ==
    \E i, j \in Indices(connectedClients) :
        /\ i # j
        /\ connectedClients[i].userId = connectedClients[j].userId
        /\ connectedClients[i].nickname # connectedClients[j].nickname

(***************************************************************************)
(* C9: every presence:update lists exactly the users that have a           *)
(* registered connection when it is emitted; every session:ack is emitted  *)
(* together with one; the disconnect of a registered connection emits one  *)
(* at once or when its handler completes, and the handler completes.       *)
(***************************************************************************)
C9_Content ==
    \A i \in Indices(emitted) :
        emitted[i].type = "presence:update" =>
            /\ emitted[i].to = ToAll
            /\ {emitted[i].onlineUsers[k].userId :
                    k \in Indices(emitted[i].onlineUsers)} = RegisteredUsers
            /\ \A k, l \in Indices(emitted[i].onlineUsers) :
                  emitted[i].onlineUsers[k].userId = emitted[i].onlineUsers[l].userId
                  => k = l

C9_Step ==
    /\ C9_Content'
    /\ (\E i \in Indices(emitted') : emitted'[i].type = "session:ack")
       => emitted'[Len(emitted')].type = "presence:update"
    /\ \A s \in Sockets :
          /\ (/\ sockStatus[s] = "open"
              /\ sockStatus'[s] = "closed"
              /\ HasClient(connectedClients, s))
             => \/ dc'[s].pc # "idle"
                \/ emitted' = <<PresenceUpdate(getOnlineUsers')>>
          /\ (dc[s].pc # "idle" /\ dc'[s].pc = "idle")
             => emitted' = <<PresenceUpdate(getOnlineUsers')>>

C9_PresenceBroadcast ==
    /\ [][C9_Step]_vars
    /\ \A s \in Sockets :
          /\ (dc[s].pc # "idle") ~> (dc[s].pc = "idle" /\ Emits("presence:update"))
          /\ (ss[s].pc = "ack") ~> (ss[s].pc = "idle" /\ Emits("presence:update"))

\* The last connection of a user has closed, its handler has completed, and
\* the broadcast lists the other user, who is still connected, alone.
C9_Witness ==
    \E s \in Sockets :
        /\ sockStatus[s] = "closed"
        /\ dc[s].pc = "idle"
        /\ Session # <<>>
        /\ \E i \in Indices(Session) : Session[i].endedAt # Null
        /\ Len(connectedClients) = 1
        /\ emitted = <<PresenceUpdate(<<OnlineEntry(connectedClients[1])>>)>>

(***************************************************************************)
(* C10: with MAX = 5 and WINDOW = 5000 ms, at most 5 sends of a user are   *)
(* admitted under one window start; a send that arrives when 5 are         *)
(* admitted and the window has not elapsed is answered with                *)
(* error:rate_limited and admits nothing; a send that arrives after the    *)
(* window has elapsed is admitted and restarts the window at count 1.      *)
(***************************************************************************)
AdmittedOf(userId) == {i \in Indices(admitted) : admitted[i].userId = userId}

AdmittedUnder(userId, start) ==
    {i \in AdmittedOf(userId) : admitted[i].windowStart = start}

\* The start of the window of the user's latest admitted send.
WindowInForce(userId) ==
    admitted[CHOOSE i \in AdmittedOf(userId) : \A j \in AdmittedOf(userId) : j <= i].windowStart

C10_Bound ==
    \A u \in UserIds : \A i \in AdmittedOf(u) :
        Cardinality(AdmittedUnder(u, admitted[i].windowStart)) <= 5

C10_Step ==
    \A s \in Sockets, p \in RateSendPayloads :
        (MSBegin(s, p, MaxRateSends) /\ HasClient(connectedClients, s)) =>
            LET u == ClientOf(connectedClients, s).userId
                fresh == \/ AdmittedOf(u) = {}
                         \/ now - WindowInForce(u) > 5000
                full == /\ ~fresh
                        /\ Cardinality(AdmittedUnder(u, WindowInForce(u))) = 5
            IN  /\ full => /\ emitted' = <<RateLimited(s)>>
                           /\ UNCHANGED <<admitted, rateLimits, ms, Message>>
                /\ ~full => /\ emitted' = <<>>
                            /\ Len(admitted') = Len(admitted) + 1
                            /\ admitted'[Len(admitted')].userId = u
                            /\ admitted'[Len(admitted')].at = now
                            /\ admitted'[Len(admitted')].windowStart =
                                  IF fresh THEN now ELSE WindowInForce(u)
                /\ fresh => rateLimits'[u] =
                                [exists |-> TRUE, count |-> 1, startTime |-> now]

C10_RateLimit == []C10_Bound /\ [][C10_Step]_vars

\* A send has just been rejected: the user's window is full, and it is not
\* the user's first window.
C10_Witness ==
    /\ Len(emitted) = 1
    /\ emitted[1].type = "error:rate_limited"
    /\ Cardinality(AdmittedUnder(RateUser, WindowInForce(RateUser))) = 5
    /\ \E i \in AdmittedOf(RateUser) :
          admitted[i].windowStart # WindowInForce(RateUser)

(***************************************************************************)
(* C11: every error:rate_limited carries retryAfterMs, equal to the window *)
(* length less the time since the user's window started, and more than 0.  *)
(* The code breaks it: the payload is a message text alone.                *)
(***************************************************************************)
C11_RetryAfter ==
    \A i \in Indices(emitted) :
        emitted[i].type = "error:rate_limited" =>
            /\ "retryAfterMs" \in DOMAIN emitted[i]
            /\ emitted[i].retryAfterMs =
                  RATE_LIMIT_WINDOW_MS
                  - (now - rateLimits[ClientOf(connectedClients, emitted[i].to).userId].startTime)
            /\ emitted[i].retryAfterMs > 0

(***************************************************************************)
(* C12: the step that answers a message:send with error:rate_limited emits *)
(* nothing else and changes no table, no rate window and no handler; every *)
(* Message row and every send in flight is a send the limiter admitted;    *)
(* and the history of every session:ack is made of Message rows, each      *)
(* once.  So a rejected send is in no later history.                       *)
(***************************************************************************)
C12_Step ==
    (\E i \in Indices(emitted') : emitted'[i].type = "error:rate_limited")
    => /\ Len(emitted') = 1
       /\ UNCHANGED <<User, Session, Message, connectedClients, rateLimits,
                      ss, ms, dc, admitted>>

SendsInFlight == {s \in Sockets : ms[s].pc \in {"fetch", "create"}}

C12_OnlyAdmitted ==
    /\ Len(Message) + Cardinality(SendsInFlight) = Len(admitted)
    /\ \A i \in Indices(emitted) :
          emitted[i].type = "session:ack" =>
              LET h == emitted[i].lastMessages
              IN  /\ \A k \in Indices(h) :
                        h[k].id \in Indices(Message) /\ h[k] = MessageDTO(h[k].id)
                  /\ \A k, l \in Indices(h) : h[k].id = h[l].id => k = l

C12_RejectedChangesNothing == [][C12_Step]_vars /\ []C12_OnlyAdmitted

\* A send has just been rejected with the five admitted ones persisted,
\* while a session:start is about to read the history.
C12_Witness ==
    /\ Len(emitted) = 1
    /\ emitted[1].type = "error:rate_limited"
    /\ Len(Message) = RATE_LIMIT_MAX_MESSAGES
    /\ rateLimits[RateUser].count = RATE_LIMIT_MAX_MESSAGES
    /\ \E t \in Sockets : ss[t].pc = "history"

(***************************************************************************)
(* C13: a session:start whose nickname, trimmed, is shorter than 1 or      *)
(* longer than 20 is answered with error:invalid_payload and starts        *)
(* nothing: no table, no presence entry and no handler changes.  The code  *)
(* breaks it: the lengths are tested before the trim, so a nickname of     *)
(* blanks passes and is stored empty.                                      *)
(***************************************************************************)
C13_Step ==
    \A s \in Sockets, p \in SessionStartPayloads :
        (/\ SSBegin(s, p)
         /\ Len(Trim(p.nickname)) \notin NicknameMin .. NicknameMax)
        => /\ emitted' = <<InvalidPayload(s)>>
           /\ UNCHANGED <<User, Session, connectedClients, ss>>

C13_BadNameRejected == [][C13_Step]_vars

(***************************************************************************)
(* C14: every persisted message has a text that is not empty; a            *)
(* message:send whose text is empty after the trim is to be answered with  *)
(* error:invalid_payload.  The code breaks it: the length is tested before *)
(* the trim, so a text of blanks is admitted, counted and stored empty.    *)
(***************************************************************************)
C14_PersistedTextNonEmpty ==
    \A i \in Indices(Message) : Len(Message[i].text) >= TextMin

(***************************************************************************)
(* C15: a message:send of a registered connection whose payload names      *)
(* another user than the one the connection is registered to is answered   *)
(* with error:invalid_payload alone and changes no rate window, no table   *)
(* and no handler; an admitted send carries the user of its connection,    *)
(* and the row written for it carries that user.                           *)
(***************************************************************************)
C15_Step ==
    \A s \in Sockets :
        /\ \A p \in MessageSendPayloads :
              (/\ MSBegin(s, p, MaxSends)
               /\ HasClient(connectedClients, s)
               /\ p.userId # ClientOf(connectedClients, s).userId)
              => /\ Len(emitted') = 1
                 /\ emitted'[1].type = "error:invalid_payload"
                 /\ emitted'[1].to = s
                 /\ UNCHANGED <<User, Session, Message, connectedClients,
                                rateLimits, ss, ms, dc, admitted>>
        /\ (ms[s].pc = "idle" /\ ms'[s].pc # "idle")
           => /\ HasClient(connectedClients, s)
              /\ ms'[s].userId = ClientOf(connectedClients, s).userId
        /\ (ms[s].pc = "create" /\ ms'[s].pc = "updateUser")
           => /\ Len(Message') = Len(Message) + 1
              /\ Message'[Len(Message')].userId = ms[s].userId

C15_IdentityChecked == [][C15_Step]_vars

\* A send that names the other user has just been answered, after a send
\* of the connection's own user was stored.
C15_Witness ==
    /\ emitted = <<UserIdMismatched(1)>>
    /\ Len(admitted) = 1
    /\ Len(Message) = 1
    /\ Message[1].userId = ClientOf(connectedClients, 1).userId

(***************************************************************************)
(* C16: a message:send on a connection without a presence entry emits      *)
(* nothing and changes nothing, whatever its payload.                      *)
(***************************************************************************)
C16_Step ==
    \A s \in Sockets, p \in MessageSendPayloads :
        (MSBegin(s, p, MaxSends) /\ ~HasClient(connectedClients, s))
        => /\ emitted' = <<>>
           /\ UNCHANGED <<sockStatus, User, Session, Message, connectedClients,
                          rateLimits, now, ss, ms, dc, admitted>>

C16_SilentDrop == [][C16_Step]_vars

\* Every admitted send has been stored and broadcast, no handler is in
\* flight, and the last event handled left nothing to emit: a send on a
\* socket without a presence entry.
C16_Witness ==
    /\ Quiet
    /\ emitted = <<>>
    /\ Len(admitted) >= 1
    /\ Len(Message) = Len(admitted)
    /\ \E s \in Sockets :
          sockStatus[s] = "open" /\ ~HasClient(connectedClients, s)

(***************************************************************************)
(* C17: every Message row has mood NEUTRAL and intensity 0, whatever the   *)
(* classifier answers.  The code breaks it: the handler waits for the      *)
(* classifier and writes the row with the mood it answered.                *)
(***************************************************************************)
C17_PersistedNeutral ==
    \A i \in Indices(Message) :
        Message[i].mood = "NEUTRAL" /\ Message[i].intensity = 0

(***************************************************************************)
(* C18: when a Message row holds a mood the classifier answered, a         *)
(* message:mood_updated with the id of the row is emitted in the end.  The *)
(* code breaks it: no handler emits message:mood_updated.                  *)
(***************************************************************************)
C18_MoodUpdated ==
    \A i \in 1 .. MaxSends :
        (Len(Message) >= i /\ Message[i].mood # "NEUTRAL")
        ~> (\E k \in Indices(emitted) :
                /\ emitted[k].type = "message:mood_updated"
                /\ emitted[k].messageId = i)

(***************************************************************************)
(* C19: every admitted message:send is stored and broadcast as message:new *)
(* in the end, whether or not the classifier answers.  The code breaks it: *)
(* the handler awaits fetch, without a timeout, before it stores.          *)
(***************************************************************************)
\* message:new has just been broadcast for the row of this id.
Delivered(id) ==
    \E k \in Indices(emitted) :
        emitted[k].type = "message:new" /\ emitted[k].message.id = id

\* One connection sends, one send at a time: the send in flight when the
\* table has n rows is stored as row n + 1.  An answer of the classifier
\* that the insert refuses is the case of C20 and is left out here.
C19_SendNotBlocked ==
    \A s \in Sockets, n \in 0 .. MaxSends :
        (ms[s].pc = "fetch" /\ Len(Message) = n)
        ~> (Delivered(n + 1) \/ (ms[s].pc = "create" /\ ms[s].intensity = Null))

(***************************************************************************)
(* C20: an answer of the classifier that is no classification (a transport *)
(* error, a status that is not OK, a body without a mood or without a      *)
(* number for intensity) emits nothing; after a transport error, a status  *)
(* that is not OK or a body without a mood the handler goes on with        *)
(* NEUTRAL and 0; and whatever the classifier answers, where the store     *)
(* answers, no admitted send is lost: each is in flight or is a Message    *)
(* row.  The code breaks the last: a body with a mood and a null intensity *)
(* makes the insert fail, and the send is dropped.                         *)
(***************************************************************************)
C20_Step ==
    \A s \in Sockets, r \in ClassifierReplies :
        MSFetch(s, r) =>
            /\ (r.kind # "ok" \/ r.intensity = Null) => emitted' = <<>>
            /\ r.kind # "ok" => ms'[s].mood = "NEUTRAL" /\ ms'[s].intensity = 0

C20_Stored ==
    Len(Message) + Cardinality(SendsInFlight) = Len(admitted)

C20_FailureHidden == [][C20_Step]_vars /\ []C20_Stored

(***************************************************************************)
(* C21: every Message row has exactly one InferenceJob row, in every       *)
(* reachable state.  The code breaks it: message:send writes the Message   *)
(* row and no statement of the server writes to InferenceJob.              *)
(***************************************************************************)
JobsOf(messageId) ==
    {j \in Indices(InferenceJob) : InferenceJob[j].messageId = messageId}

C21_MessageHasJob ==
    \A i \in Indices(Message) : Cardinality(JobsOf(i)) = 1

(***************************************************************************)
(* C24: when a store call of session:start or of message:send rejects, the *)
(* segment that handles the rejection emits a generic server error to the  *)
(* socket of the operation.  The code breaks it: both catch blocks log and *)
(* emit nothing.                                                           *)
(***************************************************************************)
ServerErrorTo(events, s) ==
    \E i \in Indices(events) : events[i].type = "error:server" /\ events[i].to = s

C24_Step(s) == (SSFail(s) \/ MSFail(s)) => ServerErrorTo(emitted', s)

C24_FailureSurfaced == [][\A s \in Sockets : C24_Step(s)]_vars

(***************************************************************************)
(* The client: lib/ab-testing.ts and the App component.                    *)
(***************************************************************************)
\* userId.charCodeAt(i), for the user ids of the runs.
CharCodes(userId) ==
    CASE userId = "6513270e-269e-4d37-b2a7-4de452e6b438" ->
            <<54, 53, 49, 51, 50, 55, 48, 101, 45, 50, 54, 57, 101, 45, 52, 100,
              51, 55, 45, 98, 50, 97, 55, 45, 52, 100, 101, 52, 53, 50, 101, 54,
              98, 52, 51, 56>>
      [] userId = "d23f0824-128b-4f33-8c5c-7fd0a6a3a450" ->
            <<100, 50, 51, 102, 48, 56, 50, 52, 45, 49, 50, 56, 98, 45, 52, 102,
              51, 51, 45, 56, 99, 53, 99, 45, 55, 102, 100, 48, 97, 54, 97, 51,
              97, 52, 53, 48>>
      [] userId = "guest" -> <<103, 117, 101, 115, 116>>
      [] OTHER -> <<>>

\* A 32-bit integer is kept as its two 16-bit halves.
Half == 65536

\* hash = ((hash << 5) - hash) + code; hash |= 0
HashStep(hash, code) ==
    LET lo == hash.lo * 31 + code
    IN  [hi |-> (hash.hi * 31 + lo \div Half) % Half, lo |-> lo % Half]

\* The for loop.  A half is never negative: the test of hash.lo makes TLC
\* compute the hash of a round before it enters the next one.
RECURSIVE HashLoop(_, _)
HashLoop(hash, codes) ==
    IF codes = <<>> \/ hash.lo < 0 THEN hash
    ELSE HashLoop(HashStep(hash, Head(codes)), Tail(codes))

\* The value of the halves as a signed 32-bit integer.
ToInt32(hash) ==
    IF hash.hi >= Half \div 2
    THEN (hash.hi - Half) * Half + hash.lo
    ELSE hash.hi * Half + hash.lo

Abs(n) == IF n < 0 THEN -n ELSE n

\* getAssignment of lib/ab-testing.ts; override is the value of the key
\* vn_assignment_override in localStorage, "" when the key is not set.
getAssignmentClient(override, userId) ==
    IF override \in {"CONTROL", "TREATMENT"} THEN override
    ELSE IF userId = "" THEN "CONTROL"
    ELSE IF Abs(ToInt32(HashLoop([hi |-> 0, lo |-> 0], CharCodes(userId)))) % 2 = 1
         THEN "TREATMENT"
         ELSE "CONTROL"

\* The App component right after its first render, for the user id that
\* localStorage holds under vn_userid.
Mounted(userId, override) ==
    [mounted |-> TRUE, userId |-> userId, override |-> override,
     assignment |-> getAssignmentClient(override, userId), joined |-> FALSE,
     messages |-> <<>>, received |-> <<>>]

\* NicknameModal submits: session:start with the user id of the component.
handleJoin(s, nickname) ==
    /\ app[s].mounted
    /\ ~app[s].joined
    /\ SSBegin(s, [userId |-> app[s].userId, nickname |-> nickname])

\* The state of the component after onSessionAck(payload): joined is set
\* and the message list is replaced by lastMessages (the ids stand for the
\* DTOs); the assignment of the payload is not read.
AppOnSessionAck(a, payload) ==
    [a EXCEPT !.joined = TRUE,
              !.messages = IF payload.lastMessages = <<>> THEN <<>>
                           ELSE [k \in Indices(payload.lastMessages) |->
                                    payload.lastMessages[k].id]]

\* The acknowledgement reaches the socket.
onSessionAck(s) ==
    /\ app[s].mounted
    /\ \E i \in Indices(emitted) :
          /\ emitted[i].type = "session:ack" /\ emitted[i].to = s
          /\ app' = [app EXCEPT ![s] = AppOnSessionAck(app[s], emitted[i])]
    /\ UNCHANGED <<sockStatus, User, Session, Message, connectedClients,
                   rateLimits, now, ss, ms, dc, emitted, admitted,
                   InferenceJob>>

\* The button "Dev: Switch to ...", rendered once joined.
toggleAssignment(s) ==
    /\ app[s].mounted
    /\ app[s].joined
    /\ LET newAssignment ==
               IF app[s].assignment = "CONTROL" THEN "TREATMENT" ELSE "CONTROL"
       IN  app' = [app EXCEPT ![s].override = newAssignment,
                              ![s].assignment = newAssignment]
    /\ UNCHANGED <<sockStatus, User, Session, Message, connectedClients,
                   rateLimits, now, ss, ms, dc, emitted, admitted,
                   InferenceJob>>

\* Each socket belongs to an App component in its own browser, which has
\* no override stored.
InitClient ==
    /\ sockStatus = [s \in Sockets |-> "new"]
    /\ User = [u \in UserIds |-> NoUser]
    /\ Session = <<>>
    /\ Message = <<>>
    /\ connectedClients = <<>>
    /\ rateLimits = [u \in UserIds |-> NoLimit]
    /\ now = 0
    /\ ss = [s \in Sockets |-> SSIdle]
    /\ ms = [s \in Sockets |-> MSIdle]
    /\ dc = [s \in Sockets |-> DCIdle]
    /\ emitted = <<>>
    /\ admitted = <<>>
    /\ InferenceJob = <<>>
    /\ app \in [Sockets -> {Mounted(u, "") : u \in UserIds}]

\* The nickname typed into NicknameModal in the runs of SpecClient.
ClientNicknames == {<<"A">>}

\* The components join and their users press the button; the store answers.
NextClient ==
    \/ \E s \in Sockets : Connect(s)
    \/ \E s \in Sockets, n \in ClientNicknames : handleJoin(s, n)
    \/ \E s \in Sockets : SSUpsert(s)
    \/ \E s \in Sockets : SSFindFirst(s)
    \/ \E s \in Sockets : SSCreate(s)
    \/ \E s \in Sockets : SSTrack(s)
    \/ \E s \in Sockets : SSHistory(s)
    \/ \E s \in Sockets : SSAck(s)
    \/ \E s \in Sockets : onSessionAck(s)
    \/ \E s \in Sockets : toggleAssignment(s)

SpecClient == InitClient /\ [][NextClient]_vars

(***************************************************************************)
(* C25: getAssignment is a function of the user id alone: for every user   *)
(* id, a call made after any step returns what a call made before it       *)
(* returned.  The code breaks it on the client, where the function reads   *)
(* localStorage first.                                                     *)
(***************************************************************************)
C25_Step(s, userId) ==
    /\ getAssignmentClient(app'[s].override, userId)
          = getAssignmentClient(app[s].override, userId)
    /\ getAssignment(userId)' = getAssignment(userId)

C25_Pure == [][\A s \in Sockets, userId \in UserIds : C25_Step(s, userId)]_vars

(***************************************************************************)
(* C27: no step changes the variant a component renders for its user id.   *)
(* The code breaks it: the button toggles the variant.                     *)
(***************************************************************************)
C27_Step(s) ==
    (app[s].mounted /\ app'[s].mounted /\ app'[s].userId = app[s].userId)
        => app'[s].assignment = app[s].assignment

C27_VariantFixed == [][\A s \in Sockets : C27_Step(s)]_vars

(***************************************************************************)
(* C28: a component that has joined renders the variant the server         *)
(* computed for its user id.  The code breaks it: the component renders    *)
(* what its own hash gives, and the two hashes differ.                     *)
(***************************************************************************)
C28_ServerAuthoritative ==
    \A s \in Sockets :
        (app[s].mounted /\ app[s].joined)
            => app[s].assignment = getAssignment(app[s].userId)

(***************************************************************************)
(* The whole life of a user: joins, sends and disconnects, of both users.  *)
(***************************************************************************)
LifeStartPayloads == [userId : UserIds, nickname : {<<"A">>}]
LifeSendPayloads == [userId : UserIds, text : {<<"h", "i">>}]

\* The classifier is down and the store answers.
NextLife ==
    \/ \E s \in Sockets : Connect(s)
    \/ \E s \in Sockets, p \in LifeStartPayloads : SSBegin(s, p)
    \/ \E s \in Sockets : SSUpsert(s)
    \/ \E s \in Sockets : SSFindFirst(s)
    \/ \E s \in Sockets : SSCreate(s)
    \/ \E s \in Sockets : SSTrack(s)
    \/ \E s \in Sockets : SSHistory(s)
    \/ \E s \in Sockets : SSAck(s)
    \/ \E s \in Sockets, p \in LifeSendPayloads : MSBegin(s, p, MaxSends)
    \/ \E s \in Sockets, r \in RateReplies : MSFetch(s, r)
    \/ \E s \in Sockets : MSCreate(s)
    \/ \E s \in Sockets : MSUpdateUser(s)
    \/ \E s \in Sockets : Disconnect(s)
    \/ \E s \in Sockets : DCCloseSession(s)
    \/ \E s \in Sockets : DCUpdateUser(s)
    \/ \E s \in Sockets : DCPresence(s)

SpecLife == Init /\ [][NextLife]_vars

(***************************************************************************)
(* C26: once a User row exists, no step of a session:start, a message:send *)
(* or a disconnect removes it or changes its assignment; the assignment of *)
(* a row is the one computed when the row was created.                     *)
(***************************************************************************)
C26_Step(u) ==
    /\ User[u].exists =>
          User'[u].exists /\ User'[u].assignment = User[u].assignment
    /\ (~User[u].exists /\ User'[u].exists) =>
          User'[u].assignment = getAssignment(u)

C26_AssignedOnce == [][\A u \in UserIds : C26_Step(u)]_vars

\* A user of the treatment group has joined, sent, left and joined again:
\* the second upsert has met the row.
C26_Witness ==
    \E s \in Sockets :
        /\ ss[s].pc = "findFirst"
        /\ User[ss[s].userId].assignment = "TREATMENT"
        /\ \E i \in Indices(Session) :
              Session[i].userId = ss[s].userId /\ Session[i].endedAt # Null
        /\ \E i \in Indices(Message) : Message[i].userId = ss[s].userId

(***************************************************************************)
(* C29: a step that changes a user's lastSeenAt is the upsert of a         *)
(* session:start of that user or the user update of the disconnect of the  *)
(* user's last connection.  The code breaks it: message:send writes        *)
(* lastSeenAt after it has stored the message.                             *)
(***************************************************************************)
C29_Step(u) ==
    User'[u].lastSeenAt # User[u].lastSeenAt =>
        \E s \in Sockets :
            \/ SSUpsert(s) /\ ss[s].userId = u
            \/ DCUpdateUser(s) /\ dc[s].userId = u

C29_LastSeenWriters == [][\A u \in UserIds : C29_Step(u)]_vars

(***************************************************************************)
(* A long conversation: the history of a join is cut to its last rows.     *)
(***************************************************************************)
\* The limiter's entry of a user after one more send, admitted at a time.
ReplayCounted(prev, at) ==
    IF \/ ~prev.exists
       \/ at - prev.startTime > RATE_LIMIT_WINDOW_MS
    THEN [exists |-> TRUE, count |-> 1, startTime |-> at]
    ELSE [prev EXCEPT !.count = prev.count + 1]

\* The limiter's entries of a user after each of the user's first n sends,
\* one send every TickMs from time 0 on.
RECURSIVE ReplayLimits(_, _)
ReplayLimits(done, n) ==
    IF Len(done) = n THEN done
    ELSE ReplayLimits(
            Append(done,
                   ReplayCounted(IF done = <<>> THEN NoLimit ELSE done[Len(done)],
                                 Len(done) * TickMs)),
            n)

\* The first socket has joined as RateUser at time 0 and has sent n
\* messages, one every TickMs, the classifier being down; the last send is
\* over.  The other sockets are connected and have sent no session:start.
Replayed(n) ==
    /\ sockStatus = [s \in Sockets |-> "open"]
    /\ User = [u \in UserIds |->
            IF u = RateUser
            THEN [exists |-> TRUE, nickname |-> <<"A">>,
                  assignment |-> getAssignment(u),
                  lastSeenAt |-> (n - 1) * TickMs]
            ELSE NoUser]
    /\ Session = <<NewSession(RateUser, 0)>>
    /\ Message = [i \in 1 .. n |->
            [userId |-> RateUser, nicknameSnapshot |-> <<"A">>,
             text |-> <<"h", "i">>, createdAt |-> (i - 1) * TickMs,
             mood |-> "NEUTRAL", intensity |-> 0]]
    /\ connectedClients =
            <<[id |-> 1, userId |-> RateUser, nickname |-> <<"A">>,
               assignment |-> getAssignment(RateUser), sessionId |-> 1]>>
    /\ rateLimits = [u \in UserIds |->
            IF u = RateUser THEN ReplayLimits(<<>>, n)[n] ELSE NoLimit]
    /\ now = (n - 1) * TickMs
    /\ ss = [s \in Sockets |-> SSIdle]
    /\ ms = [s \in Sockets |-> MSIdle]
    /\ dc = [s \in Sockets |-> DCIdle]
    /\ emitted = <<>>
    /\ admitted = [i \in 1 .. n |->
            [userId |-> RateUser, at |-> (i - 1) * TickMs,
             windowStart |-> ReplayLimits(<<>>, n)[i].startTime]]
    /\ InferenceJob = <<>>
    /\ app = [s \in Sockets |-> NoApp]

\* One row less than the history takes, or as many.
InitReplay == \E n \in {HistoryTake - 1, HistoryTake} : Replayed(n)

\* The user sends on and joins on further sockets; the clock goes on to the
\* time the row that fills the history would have without a pause.
NextReplay ==
    \/ Tick(HistoryTake - 1)
    \/ \E s \in Sockets, p \in RateSendPayloads :
          MSBegin(s, p, HistoryTake + MaxReplaySends)
    \/ \E s \in Sockets, r \in RateReplies : MSFetch(s, r)
    \/ \E s \in Sockets : MSCreate(s)
    \/ \E s \in Sockets : MSUpdateUser(s)
    \/ \E s \in Sockets, p \in HistoryStartPayloads : SSBegin(s, p)
    \/ \E s \in Sockets : SSUpsert(s)
    \/ \E s \in Sockets : SSFindFirst(s)
    \/ \E s \in Sockets : SSTrack(s)
    \/ \E s \in Sockets : SSHistory(s)
    \/ \E s \in Sockets : SSAck(s)

SpecReplay == InitReplay /\ [][NextReplay]_vars

(***************************************************************************)
(* C30: the history a session:start reads is the most recent               *)
(* min(50, total) rows of Message: that many rows, each once, oldest       *)
(* first, and no row left out is newer than a row taken; the lastMessages  *)
(* of the session:ack is that history, row by row.  Rows persisted before  *)
(* the session:start are among the rows read.                              *)
(***************************************************************************)
Min(a, b) == IF a < b THEN a ELSE b

IsRecentWindow(h) ==
    /\ Len(h) = Min(HistoryTake, Len(Message))
    /\ \A k \in Indices(h) : h[k] \in Indices(Message)
    /\ \A k, l \in Indices(h) : h[k] = h[l] => k = l
    /\ \A k, l \in Indices(h) :
          k < l => Message[h[k]].createdAt <= Message[h[l]].createdAt
    /\ \A i \in Indices(Message) :
          (\A k \in Indices(h) : h[k] # i) =>
              \A k \in Indices(h) :
                  Message[i].createdAt <= Message[h[k]].createdAt

IsAckOf(e, s, h) ==
    /\ e.type = "session:ack"
    /\ e.to = s
    /\ Len(e.lastMessages) = Len(h)
    /\ \A k \in Indices(h) :
          /\ e.lastMessages[k].id = h[k]
          /\ e.lastMessages[k].text = Message[h[k]].text
          /\ e.lastMessages[k].createdAt = Message[h[k]].createdAt

C30_Step(s) ==
    /\ (ss[s].pc = "history" /\ ss'[s].pc = "ack")
          => IsRecentWindow(ss'[s].history)
    /\ (ss[s].pc = "ack" /\ ss'[s].pc = "idle")
          => \E i \in Indices(emitted') : IsAckOf(emitted'[i], s, ss[s].history)

RenameStartPayloads == [userId : {RateUser}, nickname : {<<"A">>, <<"B">>}]

\* The classifier is down and the store answers.
NextRename ==
    \/ \E s \in Sockets : Connect(s)
    \/ \E s \in Sockets, p \in RenameStartPayloads : SSBegin(s, p)
    \/ \E s \in Sockets : SSUpsert(s)
    \/ \E s \in Sockets : SSFindFirst(s)
    \/ \E s \in Sockets : SSCreate(s)
    \/ \E s \in Sockets : SSTrack(s)
    \/ \E s \in Sockets : SSHistory(s)
    \/ \E s \in Sockets : SSAck(s)
    \/ \E s \in Sockets, p \in RateSendPayloads : MSBegin(s, p, MaxSends)
    \/ \E s \in Sockets, r \in RateReplies : MSFetch(s, r)
    \/ \E s \in Sockets : MSCreate(s)
    \/ \E s \in Sockets : MSUpdateUser(s)
    \/ \E s \in Sockets : Disconnect(s)
    \/ \E s \in Sockets : DCCloseSession(s)
    \/ \E s \in Sockets : DCUpdateUser(s)
    \/ \E s \in Sockets : DCPresence(s)

SpecRename == Init /\ [][NextRename]_vars

(***************************************************************************)
(* C31: the nicknameSnapshot a message:send takes is the nickname the User *)
(* row of the sender holds when the send arrives, and no step changes the  *)
(* snapshot of a stored row.  The code breaks the first half: the snapshot *)
(* is the nickname the sending connection joined with.                     *)
(***************************************************************************)
C31_Step(s) ==
    /\ (ms[s].pc = "idle" /\ ms'[s].pc = "fetch")
          => ms'[s].nickname = User[ms'[s].userId].nickname
    /\ (ms[s].pc = "create" /\ ms'[s].pc = "updateUser")
          => Message'[Len(Message')].nicknameSnapshot = ms[s].nickname
    /\ \A i \in Indices(Message) :
          /\ i \in Indices(Message')
          /\ Message'[i].nicknameSnapshot = Message[i].nicknameSnapshot

C31_SnapshotIsCurrentName == [][\A s \in Sockets : C31_Step(s)]_vars

(***************************************************************************)
(* C38: when no handler is in flight, every user that getOnlineUsers       *)
(* reports has the nickname of the user's User row.  The code breaks it:   *)
(* the reported nickname is that of one of the user's connections.         *)
(***************************************************************************)
C38_OnlineNameIsPersisted ==
    Quiet =>
        \A i \in Indices(getOnlineUsers) :
            getOnlineUsers[i].nickname = User[getOnlineUsers[i].userId].nickname

(***************************************************************************)
(* C32: a step that changes a user's User row, Session rows, rate window   *)
(* or presence entries is a step of a session:start, a message:send or a   *)
(* disconnect handled for that user.  The code breaks it: a session:start  *)
(* for another user on the same socket replaces the presence entry.        *)
(***************************************************************************)
SessionsOf(userId) ==
    {<<i, Session[i]>> : i \in {j \in Indices(Session) : Session[j].userId = userId}}

PresenceOf(userId) == SelectSeq(connectedClients, LAMBDA c : c.userId = userId)

HandledFor(u) ==
    \E s \in Sockets :
        \/ ss'[s] # ss[s] /\ u \in {ss[s].userId, ss'[s].userId}
        \/ ms'[s] # ms[s] /\ u \in {ms[s].userId, ms'[s].userId}
        \/ dc'[s] # dc[s] /\ u \in {dc[s].userId, dc'[s].userId}
        \/ /\ sockStatus[s] = "open" /\ sockStatus'[s] = "closed"
           /\ HasClient(connectedClients, s)
           /\ ClientOf(connectedClients, s).userId = u

C32_Step(u) ==
    \/ HandledFor(u)
    \/ /\ User'[u] = User[u]
       /\ SessionsOf(u)' = SessionsOf(u)
       /\ rateLimits'[u] = rateLimits[u]
       /\ PresenceOf(u)' = PresenceOf(u)

C32_UsersIndependent == [][\A u \in UserIds : C32_Step(u)]_vars

(***************************************************************************)
(* C33: once the handlers have completed, every entry of connectedClients  *)
(* is the entry of a socket that has not disconnected.  The code breaks    *)
(* it: a session:start that resumes after its socket has disconnected     *)
(* registers the socket all the same.                                      *)
(***************************************************************************)
C33_NoGhostEntry ==
    Quiet =>
        \A i \in Indices(connectedClients) :
            sockStatus[connectedClients[i].id] = "open"

(***************************************************************************)
(* C34: the step of a disconnect that writes endedAt writes it to a row    *)
(* whose endedAt is null, no step changes an endedAt that is not null, and *)
(* the session a session:start registers its connection with is open.  The *)
(* code breaks it: a session:start registers the row it looked up before   *)
(* a disconnect closed it, and the next disconnect writes endedAt again.   *)
(***************************************************************************)
C34_Step(s) ==
    /\ DCCloseSession(s) => Session[dc[s].sessionId].endedAt = Null
    /\ \A i \in Indices(Session) :
          Session[i].endedAt # Null => Session'[i].endedAt = Session[i].endedAt
    /\ (ss[s].pc = "track" /\ ss'[s].pc = "history")
          => Session[ss[s].sessionId].endedAt = Null

C34_EndedOnce == [][\A s \in Sockets : C34_Step(s)]_vars

(***************************************************************************)
(* C39: of the sends of a user that the limiter admits, at most 5 fall in  *)
(* any interval of 5000 ms (it is enough to look at the intervals that     *)
(* begin with an admitted send).  The code breaks it: the limiter counts   *)
(* in windows that begin with the first send after the previous window,    *)
(* so the sends at the end of one window and at the start of the next are  *)
(* admitted together.                                                      *)
(***************************************************************************)
AdmittedWithin(userId, from) ==
    {j \in AdmittedOf(userId) :
        /\ admitted[j].at >= from
        /\ admitted[j].at < from + RATE_LIMIT_WINDOW_MS}

C39_SlidingWindow ==
    \A u \in UserIds :
        \A i \in AdmittedOf(u) :
            Cardinality(AdmittedWithin(u, admitted[i].at)) <= RATE_LIMIT_MAX_MESSAGES

\* SpecRate with more sends: a full window, the next one, and a send more.
NextBurst ==
    \/ Tick(MaxRateTicks)
    \/ \E s \in Sockets, p \in RateSendPayloads : MSBegin(s, p, MaxBurstSends)
    \/ \E s \in Sockets, r \in RateReplies : MSFetch(s, r)
    \/ \E s \in Sockets : MSCreate(s)
    \/ \E s \in Sockets : MSUpdateUser(s)

SpecBurst == InitRate /\ [][NextBurst]_vars

\* C39, amended: an interval of 5000 ms meets at most two windows of the
\* limiter, and when it reaches into the later one it begins after the
\* first send of the earlier one, so at most 2 * 5 - 1 admitted sends of a
\* user fall in it.
C39_TwoWindows ==
    \A u \in UserIds :
        \A i \in AdmittedOf(u) :
            Cardinality(AdmittedWithin(u, admitted[i].at))
                <= 2 * RATE_LIMIT_MAX_MESSAGES - 1

\* An interval holds 9 admitted sends and the next send has been rejected.
C39_Witness ==
    /\ \E i \in AdmittedOf(RateUser) :
          Cardinality(AdmittedWithin(RateUser, admitted[i].at))
              = 2 * RATE_LIMIT_MAX_MESSAGES - 1
    /\ Len(emitted) = 1
    /\ emitted[1].type = "error:rate_limited"

(***************************************************************************)
(* Two sends of one connection in flight at the same time.                 *)
(***************************************************************************)
\* The texts the first connection sends, in the order it sends them.
OrderTexts == << <<"a">>, <<"b">> >>

\* The connection sends its next text; the call of the handler takes a
\* free place.
SendNext(h) ==
    /\ Len(admitted) < Len(OrderTexts)
    /\ MSBeginAt(h, 1, [userId |-> RateUser, text |-> OrderTexts[Len(admitted) + 1]],
                 Len(OrderTexts))

\* The sends, under any order of the answers of the classifier and of the
\* store, while the user joins on further sockets and time passes.
NextOrder ==
    \/ Tick(MaxTicks)
    \/ \E h \in Sockets : SendNext(h)
    \/ \E h \in Sockets, r \in RateReplies : MSFetch(h, r)
    \/ \E h \in Sockets : MSCreate(h)
    \/ \E h \in Sockets : MSUpdateUser(h)
    \/ \E s \in Sockets, p \in HistoryStartPayloads : SSBegin(s, p)
    \/ \E s \in Sockets : SSUpsert(s)
    \/ \E s \in Sockets : SSFindFirst(s)
    \/ \E s \in Sockets : SSTrack(s)
    \/ \E s \in Sockets : SSHistory(s)
    \/ \E s \in Sockets : SSAck(s)

SpecOrder == InitSend /\ [][NextOrder]_vars

(***************************************************************************)
(* C37: the sends of a connection are broadcast in the order they were     *)
(* sent, and in the order of their rows: when the message:new of a send is *)
(* emitted, no earlier send of the connection and no send with an earlier  *)
(* row is still waiting to be broadcast.  The code breaks it: each call of *)
(* the handler awaits the classifier and the store on its own.             *)
(***************************************************************************)
TextIndex(text) == CHOOSE k \in Indices(OrderTexts) : OrderTexts[k] = text

BroadcastNow(events) ==
    {events[i].message : i \in {j \in Indices(events) : events[j].type = "message:new"}}

C37_Step ==
    \A m \in BroadcastNow(emitted') :
        \A h \in Sockets :
            (ms'[h].pc # "idle") =>
                /\ TextIndex(ms'[h].text) > TextIndex(m.text)
                /\ ms'[h].saved = 0 \/ ms'[h].saved > m.id

C37_BroadcastInSendOrder == [][C37_Step]_vars

(***************************************************************************)
(* The App component and the events of the server.                         *)
(***************************************************************************)
\* onMessageNew: setMessages(prev => [...prev, payload.message]).
AppOnMessageNew(a, payload) ==
    [a EXCEPT !.messages = Append(@, payload.message.id)]

\* The listener that the component registered for the event; presence and
\* the errors leave joined and the message list alone.
AppOn(a, e) ==
    IF e.type = "session:ack" THEN AppOnSessionAck(a, e)
    ELSE IF e.type = "message:new" THEN AppOnMessageNew(a, e)
    ELSE a

\* The events that reach socket s run their listeners in the order of the
\* emits.
RECURSIVE AppAfter(_, _, _)
AppAfter(a, events, s) ==
    IF events = <<>> \/ ~a.mounted THEN a
    ELSE AppAfter(IF Head(events).to \in {s, ToAll}
                  THEN AppOn(a, Head(events)) ELSE a,
                  Tail(events), s)

\* Every component has run its listeners for what the server emitted last.
AllReceived == \A s \in Sockets : app[s].mounted => app[s].received = emitted

\* The events of the last segment reach the sockets that are connected.
Receive ==
    /\ ~AllReceived
    /\ app' = [s \in Sockets |->
                  IF ~app[s].mounted THEN app[s]
                  ELSE [(IF sockStatus[s] = "open"
                         THEN AppAfter(app[s], emitted, s)
                         ELSE app[s]) EXCEPT !.received = emitted]]
    /\ UNCHANGED <<sockStatus, User, Session, Message, connectedClients,
                   rateLimits, now, ss, ms, dc, emitted, admitted,
                   InferenceJob>>

\* The form of the chat view, rendered once joined, submits a text.
handleSendMessage(s, text, maxSends) ==
    /\ app[s].mounted
    /\ app[s].joined
    /\ Trim(text) # <<>>
    /\ MSBegin(s, [userId |-> app[s].userId, text |-> Trim(text)], maxSends)

\* What is typed into the form in the runs of SpecChat.
ChatTexts == {<<"h", "i">>}

\* The components join and chat; every event is received before the next
\* step of the server or of a user.
NextChat ==
    \/ \E s \in Sockets : AllReceived /\ Connect(s)
    \/ \E s \in Sockets, n \in ClientNicknames : AllReceived /\ handleJoin(s, n)
    \/ \E s \in Sockets : AllReceived /\ SSUpsert(s)
    \/ \E s \in Sockets : AllReceived /\ SSFindFirst(s)
    \/ \E s \in Sockets : AllReceived /\ SSCreate(s)
    \/ \E s \in Sockets : AllReceived /\ SSTrack(s)
    \/ \E s \in Sockets : AllReceived /\ SSHistory(s)
    \/ \E s \in Sockets : AllReceived /\ SSAck(s)
    \/ \E s \in Sockets, t \in ChatTexts :
          AllReceived /\ handleSendMessage(s, t, MaxChatSends)
    \/ \E s \in Sockets, r \in RateReplies : AllReceived /\ MSFetch(s, r)
    \/ \E s \in Sockets : AllReceived /\ MSCreate(s)
    \/ \E s \in Sockets : AllReceived /\ MSUpdateUser(s)
    \/ Receive

SpecChat == InitClient /\ [][NextChat]_vars

(***************************************************************************)
(* C35: once nothing is in flight and every event has been received, the   *)
(* message list of a component that has had its session:ack holds every    *)
(* persisted message exactly once: a message created while the join was   *)
(* in progress is neither there twice nor missing.                         *)
(***************************************************************************)
Occurrences(seq, x) == Cardinality({k \in Indices(seq) : seq[k] = x})

C35_ExactlyOnce ==
    (Quiet /\ AllReceived) =>
        \A s \in Sockets :
            (app[s].mounted /\ app[s].joined) =>
                \A id \in Indices(Message) :
                    Occurrences(app[s].messages, id) = 1

(***************************************************************************)
(* The socket of the component reconnects.                                 *)
(***************************************************************************)
\* The transport of socket s has closed and the socket, made by io(url,
\* {autoConnect: false}) with reconnection left on, opens a new one: the
\* server registers its handlers under a new id t.  onDisconnect and
\* onConnect write connected (and lastError) only, so joined and the
\* message list stay, and no session:start is sent.
Reconnect(s, t) ==
    /\ app[s].mounted
    /\ sockStatus[s] = "closed"
    /\ sockStatus[t] = "new"
    /\ ~app[t].mounted
    /\ sockStatus' = [sockStatus EXCEPT ![t] = "open"]
    /\ app' = [app EXCEPT ![t] = [app[s] EXCEPT !.received = <<>>],
                          ![s] = NoApp]
    /\ emitted' = <<>>
    /\ UNCHANGED <<User, Session, Message, connectedClients, rateLimits, now,
                   ss, ms, dc, admitted, InferenceJob>>

\* One browser with the component, on the first socket; the other socket
\* ids are still to be given out.
InitReconnect ==
    /\ sockStatus = [s \in Sockets |-> "new"]
    /\ User = [u \in UserIds |-> NoUser]
    /\ Session = <<>>
    /\ Message = <<>>
    /\ connectedClients = <<>>
    /\ rateLimits = [u \in UserIds |-> NoLimit]
    /\ now = 0
    /\ ss = [s \in Sockets |-> SSIdle]
    /\ ms = [s \in Sockets |-> MSIdle]
    /\ dc = [s \in Sockets |-> DCIdle]
    /\ emitted = <<>>
    /\ admitted = <<>>
    /\ InferenceJob = <<>>
    /\ app \in {[s \in Sockets |-> IF s = 1 THEN Mounted(u, "") ELSE NoApp] :
                   u \in UserIds}

\* The component joins and chats, its transport closes and comes back.
NextReconnect ==
    \/ \E s \in Sockets : AllReceived /\ app[s].mounted /\ Connect(s)
    \/ \E s \in Sockets, n \in ClientNicknames : AllReceived /\ handleJoin(s, n)
    \/ \E s \in Sockets : AllReceived /\ SSUpsert(s)
    \/ \E s \in Sockets : AllReceived /\ SSFindFirst(s)
    \/ \E s \in Sockets : AllReceived /\ SSCreate(s)
    \/ \E s \in Sockets : AllReceived /\ SSTrack(s)
    \/ \E s \in Sockets : AllReceived /\ SSHistory(s)
    \/ \E s \in Sockets : AllReceived /\ SSAck(s)
    \/ \E s \in Sockets, t \in ChatTexts :
          AllReceived /\ handleSendMessage(s, t, MaxChatSends)
    \/ \E s \in Sockets, r \in RateReplies : AllReceived /\ MSFetch(s, r)
    \/ \E s \in Sockets : AllReceived /\ MSCreate(s)
    \/ \E s \in Sockets : AllReceived /\ MSUpdateUser(s)
    \/ \E s \in Sockets : AllReceived /\ Disconnect(s)
    \/ \E s \in Sockets : AllReceived /\ DCCloseSession(s)
    \/ \E s \in Sockets : AllReceived /\ DCUpdateUser(s)
    \/ \E s \in Sockets : AllReceived /\ DCPresence(s)
    \/ \E s, t \in Sockets : AllReceived /\ Reconnect(s, t)
    \/ Receive

SpecReconnect == InitReconnect /\ [][NextReconnect]_vars

(***************************************************************************)
(* C36: while the component is joined, its socket is connected and no      *)
(* session:start of it is being handled, connectedClients holds an entry   *)
(* for the id of that socket, so that message:send finds its clientData;   *)
(* also on the socket a reconnect gave it.                                 *)
(***************************************************************************)
C36_JoinedIsPresent ==
    \A s \in Sockets :
        (/\ app[s].mounted
         /\ app[s].joined
         /\ sockStatus[s] = "open"
         /\ ss[s].pc = "idle") => HasClient(connectedClients, s)

====
